---- MODULE Spec2Model ----
(***************************************************************************)
(* Rotary dial pulse decoder (src/src/main.cpp).                           *)
(*                                                                         *)
(* Two interrupt service routines, onPulse and onShuntChange, run to       *)
(* completion on every change of their input pin; loop() runs in the main  *)
(* context and can be preempted by either routine between any two accesses *)
(* of the shared volatile variables.  Every Serial line that reports a     *)
(* dial event is recorded in `out`, tagged with the context that printed   *)
(* it.  The progress dots of loop() are not dial events and are not        *)
(* recorded.                                                               *)
(*                                                                         *)
(* unsigned long is 32 bits wide on the target.  TLC's integers are 32-bit *)
(* signed, so an unsigned long is held as the integer with the same 32     *)
(* bits read as two's complement: v itself below 2^31, v - 2^32 above.     *)
(***************************************************************************)
EXTENDS Integers, Sequences, FiniteSets, TLC

VARIABLES
    clock,              \* millis(): the millisecond clock
    pulsePin,           \* level of ROTARY_PULSE_PIN (TRUE = HIGH)
    shuntPin,           \* level of ROTARY_SHUNT_PIN (TRUE = HIGH)
    pulseCount,         \* volatile int pulseCount
    dialing,            \* volatile bool dialing
    lastPulseTime,      \* volatile unsigned long lastPulseTime
    dialingTimeout,     \* volatile unsigned long dialingTimeout
    lastDialState,      \* volatile bool lastDialState
    lastPulseState,     \* volatile bool lastPulseState
    lastPulseDebounce,  \* static local of onPulse
    lastDialDebounce,   \* static local of onShuntChange
    pc,                 \* position of loop()
    now,                \* local `now` of loop()
    digit,              \* local `digit` of loop()
    out,                \* the dial events printed so far, oldest first
    edges,              \* input edges the environment has produced so far
    ticks,              \* clock advances so far
    delayStart,         \* millis() at the call of delay(10) in loop()
    scn,                \* the scripted input trace being played, if any
    sc,                 \* number of scripted edges played so far
    shadow              \* onPulse's variables had it seen the genuine edges only

vars == <<clock, pulsePin, shuntPin, pulseCount, dialing, lastPulseTime,
          dialingTimeout, lastDialState, lastPulseState, lastPulseDebounce,
          lastDialDebounce, pc, now, digit, out, edges,
          ticks, delayStart, scn, sc, shadow>>

isrVars == <<pulseCount, dialing, lastPulseTime, dialingTimeout, lastDialState,
             lastPulseState, lastPulseDebounce, lastDialDebounce>>

loopVars == <<pc, now, digit, delayStart>>

pinVars == <<pulsePin, shuntPin>>

envVars == <<edges, ticks, scn, sc>>

HIGH == TRUE
LOW == FALSE

----------------------------------------------------------------------------
(* Program constants *)

PULSE_DEBOUNCE_MS == 20
DIAL_DEBOUNCE_MS == 50
DIAL_TIMEOUT_MS == 1500
SetupDelayMs == 1000
LoopDelayMs == 10

(* Bounds of the model *)

MaxEdges == 5
MaxTicks == 3

----------------------------------------------------------------------------
(* 32-bit unsigned arithmetic on the two's complement representation *)

IntMax == 2147483647

\* a + d for 0 <= d <= IntMax, modulo 2^32
Add32(a, d) ==
    IF a > IntMax - d
    THEN ((a - IntMax) + (d - IntMax)) - 2
    ELSE a + d

\* a - b modulo 2^32
Sub32(a, b) ==
    IF (a >= 0) = (b >= 0) THEN a - b
    ELSE IF a >= 0
         THEN LET nb == (0 - 1) - b           \* -b - 1, in 0..IntMax
              IN  IF a <= (IntMax - nb) - 1
                  THEN a + nb + 1
                  ELSE ((a - IntMax) + (nb - IntMax)) - 1
         ELSE IF a >= ((0 - IntMax) - 1) + b
              THEN a - b
              ELSE ((a + IntMax) + (IntMax - b)) + 2

\* x < w and x > w as unsigned comparisons, for a constant 0 <= w <= IntMax
ULess(x, w) == x >= 0 /\ x < w
UGreater(x, w) == x < 0 \/ x > w

----------------------------------------------------------------------------
(* Dial events *)

Ev(type, ctx) == [type |-> type, ctx |-> ctx]
DigitEv(d, n, ctx) == [type |-> "Digit", ctx |-> ctx, value |-> d, pulses |-> n]

\* int digit = (pulseCount == 10) ? 0 : pulseCount;
DigitOf(n) == IF n = 10 THEN 0 ELSE n

----------------------------------------------------------------------------
(* onPulse: the interrupt service routine of ROTARY_PULSE_PIN.  The        *)
(* routine is written as a function of the variables it reads, so that it  *)
(* can be run on two input traces side by side.                            *)

\* a < b as an unsigned comparison of two unsigned long values
ULt(a, b) == IF (a >= 0) = (b >= 0) THEN a < b ELSE a >= 0

\* (a variant that compares clock values: now < lastPulseDebounce + W)
PulseBounceAbs(n, last) == ULt(n, Add32(last, PULSE_DEBOUNCE_MS))

\* (a variant that also rejects a sample exactly PULSE_DEBOUNCE_MS late)
PulseBounceWide(n, last) == ULess(Sub32(n, last), PULSE_DEBOUNCE_MS + 1)

\* if (now - lastPulseDebounce < PULSE_DEBOUNCE_MS) return;
PulseBounce(n, last) == ULess(Sub32(n, last), PULSE_DEBOUNCE_MS)

\* (a variant that counts rising edges whether dialing or not)
CountsPulseIdle(dl, cur) == cur = HIGH

\* (a variant that counts falling edges)
CountsPulseLow(dl, cur) == dl /\ cur = LOW

\* if (dialing && currentPulseState == HIGH)
CountsPulse(dl, cur) == dl /\ cur = HIGH

\* The sample is taken as an edge of the pulse line.
PulseAccepted(s, n, cur) ==
    ~PulseBounce(n, s.lastPulseDebounce) /\ cur # s.lastPulseState

\* The variables of onPulse
PulseVars ==
    [pulseCount |-> pulseCount, lastPulseTime |-> lastPulseTime,
     dialingTimeout |-> dialingTimeout, lastPulseState |-> lastPulseState,
     lastPulseDebounce |-> lastPulseDebounce]

\* (a variant in which every accepted edge restarts the timeout)
PulseNotedRestarts(s, n, cur) ==
    [s EXCEPT !.lastPulseState = cur, !.lastPulseDebounce = n,
              !.dialingTimeout = n]

\* An accepted edge that is not counted:
\* lastPulseDebounce = now; lastPulseState = currentPulseState;
PulseNoted(s, n, cur) ==
    [s EXCEPT !.lastPulseState = cur, !.lastPulseDebounce = n]

\* The routine run at clock value n with digitalRead() returning cur, dl
\* being the value of dialing: the values it leaves in its variables.
PulseStep(s, dl, n, cur) ==
    IF ~PulseAccepted(s, n, cur)
    THEN s
    ELSE IF CountsPulse(dl, cur)
         THEN [pulseCount |-> s.pulseCount + 1, lastPulseTime |-> n,
               dialingTimeout |-> n, lastPulseState |-> cur,
               lastPulseDebounce |-> n]
         ELSE PulseNoted(s, n, cur)

onPulse(n, cur) ==
    LET r == PulseStep(PulseVars, dialing, n, cur)
    IN  /\ pulseCount' = r.pulseCount
        /\ lastPulseTime' = r.lastPulseTime
        /\ dialingTimeout' = r.dialingTimeout
        /\ lastPulseState' = r.lastPulseState
        /\ lastPulseDebounce' = r.lastPulseDebounce

----------------------------------------------------------------------------
(* onShuntChange: the interrupt service routine of ROTARY_SHUNT_PIN *)

\* if (now - lastDialDebounce < DIAL_DEBOUNCE_MS) return;
ShuntBounce(n) == ULess(Sub32(n, lastDialDebounce), DIAL_DEBOUNCE_MS)

\* (a variant that starts a cycle on the rising edge)
StartsDialingHigh(cur) == ~dialing /\ cur = HIGH

\* if (!dialing && currentDialState == LOW)
StartsDialing(cur) == ~dialing /\ cur = LOW

\* else if (dialing && currentDialState == HIGH)
EndsDialing(cur) == dialing /\ cur = HIGH

\* if (pulseCount > 0) in both completion paths
HasDigit(n) == n > 0

\* The lines printed when the dial returns to rest with n pulses counted.
RestLines(n) ==
    IF HasDigit(n)
    THEN <<Ev("Ended", "isr"), DigitEv(DigitOf(n), n, "isr")>>
    ELSE <<Ev("Ended", "isr")>>

\* The sample is taken as an edge of the shunt line.
ShuntAccepted(n, cur) == ~ShuntBounce(n) /\ cur # lastDialState

\* The whole routine, run at clock value n with digitalRead() returning cur.
onShuntChange(n, cur) ==
    IF ~ShuntAccepted(n, cur)
    THEN UNCHANGED <<pulseCount, dialing, dialingTimeout, lastDialState,
                     lastDialDebounce, out>>
    ELSE /\ lastDialDebounce' = n
         /\ IF StartsDialing(cur)
            THEN /\ dialing' = TRUE
                 /\ pulseCount' = 0
                 /\ dialingTimeout' = n
                 /\ out' = Append(out, Ev("Started", "isr"))
            ELSE IF EndsDialing(cur)
            THEN /\ dialing' = FALSE
                 /\ out' = out \o RestLines(pulseCount)
                 /\ UNCHANGED <<pulseCount, dialingTimeout>>
            ELSE UNCHANGED <<pulseCount, dialing, dialingTimeout, out>>
         /\ lastDialState' = cur

----------------------------------------------------------------------------
(* loop(): one step per access of the shared variables.  Lines 160-173    *)
(* print the progress dots and change only lastDisplayedCount, which       *)
(* nothing else reads: they are left out.  The local digit holds 0        *)
(* outside its block.                                                      *)

\* (a variant that waits for three times DIAL_TIMEOUT_MS)
TimedOutLate(n, since) == UGreater(Sub32(n, since), DIAL_TIMEOUT_MS * 3)

\* (now - dialingTimeout) > (DIAL_TIMEOUT_MS * 2)
TimedOut(n, since) == UGreater(Sub32(n, since), DIAL_TIMEOUT_MS * 2)

\* Control reaches line l.  No shared variable is accessed between the end
\* of the if statement and the call of delay(10), so the call is taken with
\* the step that reaches it.
Goto(l) ==
    /\ pc' = l
    /\ delayStart' = IF l = "L196" THEN clock ELSE delayStart

\* unsigned long now = millis();
L158 ==
    /\ pc = "L158"
    /\ now' = clock
    /\ Goto("L176")
    /\ UNCHANGED <<digit, dialing, out>>

\* if (dialing && ...: the read of dialing
L176 ==
    /\ pc = "L176"
    /\ Goto(IF dialing THEN "L176b" ELSE "L196")
    /\ UNCHANGED <<now, digit, dialing, out>>

\* ... && (now - dialingTimeout) > (DIAL_TIMEOUT_MS * 2)): the read of
\* dialingTimeout and the comparison
L176b ==
    /\ pc = "L176b"
    /\ Goto(IF TimedOut(now, dialingTimeout) THEN "L178" ELSE "L196")
    /\ UNCHANGED <<now, digit, dialing, out>>

\* dialing = false;
L178 ==
    /\ pc = "L178"
    /\ dialing' = FALSE
    /\ Goto("L180")
    /\ UNCHANGED <<now, digit, out>>

\* Serial.println("\n[Safety timeout - dial may be stuck]");
L180 ==
    /\ pc = "L180"
    /\ out' = Append(out, Ev("SafetyTimeout", "loop"))
    /\ Goto("L182")
    /\ UNCHANGED <<now, digit, dialing>>

\* if (pulseCount > 0)
L182 ==
    /\ pc = "L182"
    /\ Goto(IF HasDigit(pulseCount) THEN "L184" ELSE "L196")
    /\ UNCHANGED <<now, digit, dialing, out>>

\* int digit = (pulseCount == 10) ? 0 : ...: the first read of pulseCount
L184 ==
    /\ pc = "L184"
    /\ Goto(IF pulseCount = 10 THEN "L190" ELSE "L184b")
    /\ UNCHANGED <<now, digit, dialing, out>>

\* ... : pulseCount: the second read of pulseCount
L184b ==
    /\ pc = "L184b"
    /\ digit' = pulseCount
    /\ Goto("L190")
    /\ UNCHANGED <<now, dialing, out>>

\* Serial.print(digit); ... Serial.print(pulseCount); ...
L190 ==
    /\ pc = "L190"
    /\ out' = Append(out, DigitEv(digit, pulseCount, "loop"))
    /\ digit' = 0
    /\ Goto("L196")
    /\ UNCHANGED <<now, dialing>>

\* delay(10) returns once 10 ms have passed, loop() returns and is called
\* again: unsigned long now = millis();
L196 ==
    /\ pc = "L196"
    /\ ~ULess(Sub32(clock, delayStart), LoopDelayMs)
    /\ delayStart' = 0
    /\ now' = clock
    /\ pc' = "L176"
    /\ UNCHANGED <<digit, dialing, out>>

\* One step of loop(); the interrupt routines do not run during it.
LoopStep ==
    /\ \/ L158 \/ L176 \/ L176b \/ L178 \/ L180
       \/ L182 \/ L184 \/ L184b \/ L190 \/ L196
    /\ UNCHANGED <<clock, pinVars, envVars, pulseCount, lastPulseTime,
                   dialingTimeout, lastDialState, lastPulseState,
                   lastPulseDebounce, lastDialDebounce>>

----------------------------------------------------------------------------
(* The interrupts: a pin changes level and its routine runs to completion. *)
(* A change of the pulse line is either a genuine edge of the dial or a    *)
(* contact bounce; `shadow` follows onPulse on the genuine edges alone.    *)

\* onPulse's variables as the shadow has them
ShadowVars ==
    [PulseVars EXCEPT !.pulseCount = shadow.pulseCount,
                      !.lastPulseState = shadow.lastPulseState,
                      !.lastPulseDebounce = shadow.lastPulseDebounce]

ShadowOf(r) ==
    [pulseCount |-> r.pulseCount, lastPulseState |-> r.lastPulseState,
     lastPulseDebounce |-> r.lastPulseDebounce]

PulseIrq(genuine) ==
    /\ pulsePin' = ~pulsePin
    /\ onPulse(clock, pulsePin')
    /\ shadow' = IF genuine
                 THEN ShadowOf(PulseStep(ShadowVars, dialing, clock, pulsePin'))
                 ELSE shadow
    /\ UNCHANGED <<clock, shuntPin, loopVars, dialing, lastDialState,
                   lastDialDebounce, out>>

ShuntIrq ==
    /\ shuntPin' = ~shuntPin
    /\ onShuntChange(clock, shuntPin')
    /\ shadow' = [shadow EXCEPT !.pulseCount =
                     IF pulseCount' = 0 THEN 0 ELSE @]
    /\ UNCHANGED <<clock, pulsePin, loopVars, lastPulseTime, lastPulseState,
                   lastPulseDebounce>>

\* d ms pass
Advance(d) ==
    /\ clock' = Add32(clock, d)
    /\ UNCHANGED <<pinVars, isrVars, loopVars, out, shadow>>

----------------------------------------------------------------------------
(* The program after setup(), with inputs changing at any time *)

\* Time steps of the free environment
Deltas == {10, 20, 50, 3000}

InitProgram ==
    /\ clock = SetupDelayMs
    /\ pulsePin = HIGH /\ shuntPin = HIGH
    /\ pulseCount = 0 /\ dialing = FALSE
    /\ lastPulseTime = 0 /\ dialingTimeout = 0
    /\ lastDialState = HIGH /\ lastPulseState = HIGH
    /\ lastPulseDebounce = 0 /\ lastDialDebounce = 0
    /\ pc = "L158" /\ now = 0 /\ digit = 0
    /\ delayStart = 0
    /\ out = <<>>
    /\ shadow = [pulseCount |-> 0, lastPulseState |-> HIGH,
                 lastPulseDebounce |-> 0]

Free == [kind |-> "free", n |-> 0]

Init ==
    /\ InitProgram
    /\ edges = 0 /\ ticks = 0 /\ scn = Free /\ sc = 0

FreePulse ==
    /\ edges < MaxEdges
    /\ edges' = edges + 1
    /\ PulseIrq(TRUE)
    /\ UNCHANGED <<ticks, scn, sc>>

FreeShunt ==
    /\ edges < MaxEdges
    /\ edges' = edges + 1
    /\ ShuntIrq
    /\ UNCHANGED <<ticks, scn, sc>>

FreeAdvance ==
    /\ ticks < MaxTicks
    /\ ticks' = ticks + 1
    /\ \E d \in Deltas : Advance(d)
    /\ UNCHANGED <<edges, scn, sc>>

Loop ==
    /\ LoopStep
    /\ UNCHANGED shadow

Next == FreePulse \/ FreeShunt \/ FreeAdvance \/ Loop

Spec == Init /\ [][Next]_vars

----------------------------------------------------------------------------
(* The program after setup(), fed a scripted input trace.  Times are in ms *)
(* after the end of setup(); the clock runs on to the next edge or the     *)
(* return of delay(10) and every edge happens at its time.                 *)

E(at, line, level, genuine) ==
    [at |-> at, line |-> line, level |-> level, genuine |-> genuine]

\* The pulse line opens and closes once for each of pulses i..n.
RECURSIVE Pulses(_, _)
Pulses(i, n) ==
    IF i > n THEN <<>>
    ELSE <<E(60 + 100 * i, "pulse", LOW, TRUE),
           E(120 + 100 * i, "pulse", HIGH, TRUE)>> \o Pulses(i + 1, n)

ShuntDown == E(100, "shunt", LOW, TRUE)

\* A dial turned to n pulses and released: for n = 1, 5, 10 and 0 the
\* pulse High edges and the shunt edges of scenarios S1-S3 and S6.
DialScript(n) ==
    <<ShuntDown>> \o Pulses(1, n)
        \o <<E(IF n = 0 THEN 300 ELSE 400 + 100 * n, "shunt", HIGH, TRUE)>>

\* The dial leaves rest, gives n pulses, and the shunt never returns to
\* High: scenario S5 for n = 3.
StuckScript(n) == <<ShuntDown>> \o Pulses(1, n)

\* S4: bounce on the pulse line, all within 20 ms.
S4Script ==
    <<ShuntDown, E(200, "pulse", LOW, TRUE), E(205, "pulse", HIGH, TRUE),
      E(210, "pulse", LOW, TRUE), E(215, "pulse", HIGH, TRUE),
      E(500, "shunt", HIGH, TRUE)>>

\* One genuine pulse, Low at 200 and High at 240, with three pairs of added
\* toggles, each less than 20 ms from one of the two genuine edges.
BounceScript ==
    <<ShuntDown,
      E(185, "pulse", LOW, FALSE), E(190, "pulse", HIGH, FALSE),
      E(200, "pulse", LOW, TRUE),
      E(205, "pulse", HIGH, FALSE), E(225, "pulse", LOW, FALSE),
      E(240, "pulse", HIGH, TRUE),
      E(245, "pulse", LOW, FALSE), E(250, "pulse", HIGH, FALSE),
      E(500, "shunt", HIGH, TRUE)>>

\* A shunt bounce 10 ms after the dial leaves rest, no edge until the safety
\* timeout has passed, then a well-formed cycle of one pulse.
HealScript ==
    <<ShuntDown, E(110, "shunt", HIGH, TRUE),
      E(3300, "shunt", LOW, TRUE), E(3360, "pulse", LOW, TRUE),
      E(3420, "pulse", HIGH, TRUE), E(3700, "shunt", HIGH, TRUE)>>

Script(s) ==
    CASE s.kind = "dial" -> DialScript(s.n)
      [] s.kind = "stuck" -> StuckScript(s.n)
      [] s.kind = "S4" -> S4Script
      [] s.kind = "bounce" -> BounceScript
      [] s.kind = "heal" -> HealScript
      [] OTHER -> <<>>

\* Bounds of the scripted runs: the largest pulse count dialled, the
\* largest pulse count of a stuck dial, the time the clock runs on after the
\* last edge, the time it runs on when the dial is stuck, the latest start
\* of the trace after setup(), and the number of times 1 ms passes between
\* two steps of one run of loop().
MaxDial == 11
MaxStuck == 3
RunOn == 20
StuckRunOn == 3020
MaxPhase == 1
MaxSlips == 2

Scenarios ==
    [kind : {"dial"}, n : 0..MaxDial, phase : 0..MaxPhase]
        \cup [kind : {"stuck"}, n : 0..MaxStuck, phase : 0..MaxPhase]
        \cup [kind : {"S4", "bounce", "heal"}, n : {0}, phase : 0..MaxPhase]

ScriptTab == [s \in Scenarios |-> Script(s)]

\* ms since the start of the scripted trace
Ms == Sub32(clock, SetupDelayMs) - scn.phase

TheScript == ScriptTab[scn]

Horizon ==
    TheScript[Len(TheScript)].at
        + (IF scn.kind = "stuck" THEN StuckRunOn ELSE RunOn)

ScriptDone == sc = Len(TheScript)

InitScript ==
    /\ InitProgram
    /\ edges = 0 /\ ticks = 0 /\ sc = 0
    /\ scn \in Scenarios

ScriptEdge ==
    /\ ~ScriptDone
    /\ LET e == TheScript[sc + 1]
       IN  /\ Ms = e.at
           /\ IF e.line = "pulse"
              THEN pulsePin # e.level /\ PulseIrq(e.genuine)
              ELSE shuntPin # e.level /\ ShuntIrq
    /\ sc' = sc + 1
    /\ UNCHANGED <<edges, ticks, scn>>

\* ms until the next scripted edge, or until the end of the run
ToEdge == (IF ScriptDone THEN Horizon ELSE TheScript[sc + 1].at) - Ms

\* ms until delay(10) returns
ToWake == LoopDelayMs - Sub32(clock, delayStart)

Min(a, b) == IF a < b THEN a ELSE b

\* Time passes while loop() is in delay(10): up to the next edge or the
\* return of delay(10), whichever is first.
ScriptSleep ==
    /\ pc = "L196"
    /\ ToEdge > 0 /\ ToWake > 0
    /\ Advance(Min(ToEdge, ToWake))
    /\ UNCHANGED envVars

\* 1 ms passes between the read of the clock and the timeout test.
ScriptSlip ==
    /\ pc \in {"L176", "L176b"}
    /\ ToEdge > 0
    /\ ticks < MaxSlips
    /\ ticks' = ticks + 1
    /\ Advance(1)
    /\ UNCHANGED <<edges, scn, sc>>

NextScript == ScriptEdge \/ ScriptSleep \/ ScriptSlip \/ Loop

SpecScript == InitScript /\ [][NextScript]_vars

\* The stuck-dial traces alone.  loop() runs for ever, time passes and the
\* scripted edges happen.
InitStuck == InitScript /\ scn.kind = "stuck"

SpecStuck ==
    /\ InitStuck /\ [][NextScript]_vars
    /\ WF_vars(Loop) /\ WF_vars(ScriptSleep) /\ WF_vars(ScriptEdge)

----------------------------------------------------------------------------
(* The program about to see millis() wrap from 2^32 - 1 to 0: idle since   *)
(* setup(), no edge seen yet, loop() at its start, WrapLead ms before the  *)
(* wrap; inputs then change at any time.                                    *)

WrapLead == 25

\* 2^32 - WrapLead as an unsigned long
WrapStart == 0 - WrapLead

InitWrap ==
    /\ clock = WrapStart
    /\ pulsePin = HIGH /\ shuntPin = HIGH
    /\ pulseCount = 0 /\ dialing = FALSE
    /\ lastPulseTime = 0 /\ dialingTimeout = 0
    /\ lastDialState = HIGH /\ lastPulseState = HIGH
    /\ lastPulseDebounce = 0 /\ lastDialDebounce = 0
    /\ pc = "L158" /\ now = 0 /\ digit = 0
    /\ delayStart = 0
    /\ out = <<>>
    /\ shadow = [pulseCount |-> 0, lastPulseState |-> HIGH,
                 lastPulseDebounce |-> 0]
    /\ edges = 0 /\ ticks = 0 /\ scn = Free /\ sc = 0

SpecWrap == InitWrap /\ [][Next]_vars

----------------------------------------------------------------------------
(* Reading the event trace *)

TimeoutMs == DIAL_TIMEOUT_MS * 2

\* An event without the context that printed it
Plain(e) ==
    IF e.type = "Digit" THEN <<"Digit", e.value, e.pulses>> ELSE <<e.type>>

PlainOut == [i \in 1..Len(out) |-> Plain(out[i])]

Positions(types) == {i \in 1..Len(out) : out[i].type \in types}

Closers == {"Ended", "SafetyTimeout"}

\* The events of the cycle that the Started at position i opens
CycleOf(i) ==
    {j \in (i + 1)..Len(out) : Positions({"Started"}) \cap (i + 1)..j = {}}

\* What a well-formed cycle of n pulses is to print
Decoded(n) == <<<<"Started">>, <<"Ended">>, <<"Digit", DigitOf(n), n>>>>

\* The positions of loop() after it has found the timeout test true
TimeoutPath == {"L178", "L180", "L182", "L184", "L184b", "L190"}

----------------------------------------------------------------------------
(* C1 *)

\* C1 (as claimed): once a well-formed trace of n pulses, 1 <= n <= 10, has
\* been played (Shunt Low, n pulse High edges 100 ms apart, Shunt High 280
\* ms after the last), the events printed are exactly Started, Ended,
\* Digit{n = 10 ? 0 : n, n}; while it is played, they are the first events
\* of these.
C1_DigitCorrectness ==
    (scn.kind = "dial" /\ scn.n \in 1..10)
        => /\ Len(out) <= 3
           /\ PlainOut = SubSeq(Decoded(scn.n), 1, Len(out))
           /\ ScriptDone => Len(out) = 3

----------------------------------------------------------------------------
(* C2 *)

\* C2 (as claimed): every Digit printed has a value in 0..9 and a pulse
\* count in 1..10: an overcount is never reported as a digit.
C2_NoOvercountDigit ==
    \A i \in Positions({"Digit"}) :
        out[i].value \in 0..9 /\ out[i].pulses \in 1..10

----------------------------------------------------------------------------
(* C3 *)

\* C3 (as claimed): whenever loop() has found its timeout test true and is
\* about to report the safety timeout, the machine is dialing and more than
\* 3000 ms of clock time have passed since the cycle's start or its last
\* counted pulse, whichever is later (dialingTimeout).
C3_TimeoutOnlyWhenDue ==
    pc = "L178" => (dialing /\ clock - dialingTimeout > TimeoutMs)

----------------------------------------------------------------------------
(* C4 *)

\* The dial is stuck: dialing, no edge to come, and more than 3000 ms since
\* the cycle's start or its last counted pulse.
StuckDue == dialing /\ ScriptDone /\ clock - dialingTimeout > TimeoutMs

\* loop() has reported the safety timeout with the pulse count (in the Digit
\* line that follows it when the count is not 0) and the machine is idle.
TimeoutReported ==
    /\ ~dialing /\ pc = "L196"
    /\ LET k == Len(out)
       IN  IF pulseCount > 0
           THEN /\ k >= 2 /\ out[k - 1].type = "SafetyTimeout"
                /\ out[k].type = "Digit" /\ out[k].pulses = pulseCount
           ELSE k >= 1 /\ out[k].type = "SafetyTimeout"

\* C4: a stuck dial is reported: once the dial is stuck, loop() eventually
\* reports the safety timeout with the pulse count and the machine is idle;
\* and no run of loop() that read the clock more than 3000 ms after
\* dialingTimeout ends with the machine still dialing (for Shunt Low at 100
\* and pulses at 220, 320, 420: none that read 3421 or more).
C4_StuckDialReported ==
    /\ StuckDue ~> TimeoutReported
    /\ []((pc = "L196" /\ dialing /\ ScriptDone)
             => now - dialingTimeout <= TimeoutMs)

\* Shunt Low at 100, pulses at 220, 320, 420: the timeout and Digit{3,3} are
\* reported by a run of loop() that read the clock at 3421 or later.
C4_Witness ==
    /\ scn.kind = "stuck" /\ scn.n = 3
    /\ PlainOut = <<<<"Started">>, <<"SafetyTimeout">>, <<"Digit", 3, 3>>>>
    /\ pc = "L196" /\ ~dialing
    /\ now - dialingTimeout > TimeoutMs
    /\ now - SetupDelayMs - scn.phase \in 3421..3430

----------------------------------------------------------------------------
(* C5 *)

\* C5 (as claimed): for each Started, at most one Digit and at most one of
\* Ended and SafetyTimeout are printed before the next Started.
C5_NoDuplicateCompletion ==
    \A i \in Positions({"Started"}) :
        /\ Cardinality(CycleOf(i) \cap Positions({"Digit"})) <= 1
        /\ Cardinality(CycleOf(i) \cap Positions(Closers)) <= 1

----------------------------------------------------------------------------
(* C6 *)

\* C6 (as claimed): every Ended, Digit and SafetyTimeout comes after a
\* Started; an Ended or SafetyTimeout is the first one since the latest
\* Started; and a Started that is not the first event comes after the
\* Ended or SafetyTimeout of the cycle before it.
C6_StartEndPairing ==
    \A j \in 1..Len(out) :
        LET before == Positions({"Started"}) \cap 1..(j - 1)
            since == {k \in 1..(j - 1) : \A i \in before : i < k}
        IN  IF out[j].type = "Started"
            THEN j = 1 \/ (Positions(Closers) \cap since # {})
            ELSE /\ before # {}
                 /\ out[j].type \in Closers
                        => Positions(Closers) \cap since = {}

----------------------------------------------------------------------------
(* C7 *)

\* C7 (as claimed): in scenario S4, when the dial has returned to rest and
\* the cycle was ended by the Shunt High edge, one pulse has been counted
\* and Digit{1,1} has been printed.
C7_S4OnePulse ==
    (scn.kind = "S4" /\ ScriptDone /\ Positions({"Ended"}) # {})
        => (pulseCount = 1 /\ Positions({"Digit"}) # {}
            /\ \A i \in Positions({"Digit"}) : Plain(out[i]) = <<"Digit", 1, 1>>)

----------------------------------------------------------------------------
(* C8 *)

\* C8 (as claimed): on a trace whose genuine pulse edges are 40 ms apart,
\* with toggles added less than 20 ms from them, the pulse count at the end
\* of a cycle that the Shunt High edge ended, and in the Digit printed, is
\* the count onPulse reaches on the genuine edges alone.
C8_BounceImmunity ==
    (scn.kind = "bounce" /\ ScriptDone /\ Positions({"Ended"}) # {})
        => /\ pulseCount = shadow.pulseCount
           /\ \A i \in Positions({"Digit"}) :
                  out[i].pulses = shadow.pulseCount

----------------------------------------------------------------------------
(* C9 *)

\* C9 (as claimed): after a shunt edge rejected by debounce and the safety
\* timeout that follows it, the next well-formed cycle (Shunt Low, one pulse,
\* Shunt High) is decoded: the last three events are Started, Ended,
\* Digit{1,1}.
C9_SelfHeal ==
    (scn.kind = "heal" /\ ScriptDone)
        => /\ Len(out) >= 3
           /\ SubSeq(PlainOut, Len(out) - 2, Len(out)) = Decoded(1)

----------------------------------------------------------------------------
(* C10 *)

\* The step is the interrupt of an accepted Shunt Low edge.
AcceptedShuntLow ==
    /\ shuntPin' # shuntPin /\ shuntPin' = LOW
    /\ ShuntAccepted(clock, LOW)

\* C10: while the machine is idle, and loop() is not in the middle of
\* reporting a timeout it found while dialing, every step but the interrupt
\* of an accepted Shunt Low edge (pulse edges of either level, Shunt High
\* edges, steps of loop(), time passing) prints nothing and leaves dialing
\* and pulseCount as they are; and as long as no shunt edge has been
\* accepted, the machine is idle and nothing has been printed.
C10_IdleIgnores ==
    /\ [][(~dialing /\ pc \notin TimeoutPath /\ ~AcceptedShuntLow)
             => UNCHANGED <<out, dialing, pulseCount>>]_vars
    /\ [](lastDialDebounce = 0 => (~dialing /\ out = <<>>))

\* Idle, after a cycle: pulse edges of both levels have been accepted, the
\* shunt is back High, loop() has run, and only the cycle's events are
\* printed.
C10_Witness ==
    /\ ~dialing /\ pc = "L196" /\ shuntPin = HIGH
    /\ lastPulseState = LOW /\ lastPulseDebounce > lastDialDebounce
    /\ lastDialDebounce > 0 /\ now > lastPulseDebounce
    /\ PlainOut = <<<<"Started">>, <<"Ended">>>>
    /\ pulseCount = 0

----------------------------------------------------------------------------
(* C11 *)

\* The Ended at position j was printed with no pulse counted: onShuntChange
\* printed no Digit line with it.
EndedEmpty(j) ==
    /\ out[j].type = "Ended"
    /\ ~(j < Len(out) /\ out[j + 1].type = "Digit" /\ out[j + 1].ctx = "isr")

\* The latest Started, when there is one
LastStarted ==
    CHOOSE i \in Positions({"Started"}) :
        \A k \in Positions({"Started"}) : k <= i

\* C11 (as claimed): when the latest cycle was ended by an accepted Shunt
\* High edge with no pulse counted, at most 3000 ms after the accepted Shunt
\* Low edge that started it, the cycle has printed Started, then Ended, and
\* nothing else (no Digit, no SafetyTimeout), and the machine is idle.
C11_EmptyCycle ==
    (/\ Positions({"Started"}) # {}
     /\ \E j \in CycleOf(LastStarted) : EndedEmpty(j)
     /\ Sub32(lastDialDebounce, dialingTimeout) \in 0..TimeoutMs)
        => /\ \A j \in CycleOf(LastStarted) :
                  j = LastStarted + 1 /\ out[j].type = "Ended"
           /\ ~dialing

----------------------------------------------------------------------------
(* C12 *)

\* C12 (as claimed): every Started, Ended, Digit and SafetyTimeout line is
\* printed by loop(); the interrupt routines print nothing.
C12_NoSinkIoInIsr ==
    \A i \in 1..Len(out) : out[i].ctx = "loop"

----------------------------------------------------------------------------
(* C13 *)

\* The step is the interrupt of a pulse edge to the given level that
\* onPulse accepts.
AcceptedPulse(level) ==
    /\ pulsePin' # pulsePin /\ pulsePin' = level
    /\ PulseAccepted(PulseVars, clock, level)

\* C13: pulseCount changes in two ways only.  Every step that takes the
\* machine from idle to dialing leaves it 0; every accepted pulse High edge
\* while dialing adds exactly 1; and no other step changes it: not a pulse
\* edge while idle, not an accepted pulse Low edge, not a shunt High edge,
\* not a step of loop(), not the passing of time.
C13_PulseCountChanges ==
    [][/\ (~dialing /\ dialing') => pulseCount' = 0
       /\ (dialing /\ AcceptedPulse(HIGH)) => pulseCount' = pulseCount + 1
       /\ pulseCount' # pulseCount
            => \/ ~dialing /\ dialing'
               \/ dialing /\ AcceptedPulse(HIGH)]_vars

\* A second cycle has started after a cycle of one pulse: the count, 1 when
\* the first cycle ended, is 0 again.
C13_Witness ==
    /\ PlainOut = <<<<"Started">>, <<"Ended">>, <<"Digit", 1, 1>>,
                    <<"Started">>>>
    /\ dialing /\ pulseCount = 0 /\ lastPulseState = HIGH

----------------------------------------------------------------------------
(* C14 *)

\* C14 (as claimed): when a Digit or a SafetyTimeout line has been printed
\* and no Started line after it, the machine is idle.  (An accepted Shunt
\* Low edge while idle prints Started, so this covers the moment the line
\* is printed and the time up to the next accepted Shunt Low edge, on the
\* path of onShuntChange and on the timeout path of loop().)
C14_IdleAfterReport ==
    (out # <<>> /\ out[Len(out)].type \in {"Digit", "SafetyTimeout"})
        => ~dialing

----------------------------------------------------------------------------
(* C15 *)

\* A sample of a line at level lvl, the line's stable level being last and
\* its last accepted edge being at time since, is to be accepted: the level
\* differs and at least w ms have passed.
ToAccept(lvl, last, since, w) == lvl # last /\ clock - since >= w

\* C15: per-line debounce.  At every sample of the pulse line (window 20 ms)
\* and of the shunt line (window 50 ms): the sample is accepted, the stable
\* level becoming the sampled level and the last-change time the clock,
\* exactly when the level differs from the stable level and at least the
\* window has passed since the last accepted edge; otherwise the stable
\* level and the last-change time stay as they are.  And whenever either
\* changes, the new edge is at least the window after the one before it and
\* of the opposite level.
C15_PerLineDebounce ==
    [][/\ pulsePin' # pulsePin
            => IF ToAccept(pulsePin', lastPulseState, lastPulseDebounce,
                           PULSE_DEBOUNCE_MS)
               THEN lastPulseState' = pulsePin' /\ lastPulseDebounce' = clock
               ELSE UNCHANGED <<lastPulseState, lastPulseDebounce,
                                pulseCount, dialingTimeout>>
       /\ shuntPin' # shuntPin
            => IF ToAccept(shuntPin', lastDialState, lastDialDebounce,
                           DIAL_DEBOUNCE_MS)
               THEN lastDialState' = shuntPin' /\ lastDialDebounce' = clock
               ELSE UNCHANGED <<lastDialState, lastDialDebounce, dialing,
                                pulseCount, dialingTimeout, out>>
       /\ <<lastPulseState, lastPulseDebounce>>'
              # <<lastPulseState, lastPulseDebounce>>
            => /\ lastPulseState' = ~lastPulseState
               /\ lastPulseDebounce' - lastPulseDebounce >= PULSE_DEBOUNCE_MS
       /\ <<lastDialState, lastDialDebounce>>'
              # <<lastDialState, lastDialDebounce>>
            => /\ lastDialState' = ~lastDialState
               /\ lastDialDebounce' - lastDialDebounce >= DIAL_DEBOUNCE_MS]_vars

\* Pulse Low and Shunt Low were accepted at 1000, pulse High exactly 20 ms
\* later, and then a pulse Low sample and a Shunt High sample were rejected.
C15_Witness ==
    /\ lastPulseState = HIGH /\ lastPulseDebounce = SetupDelayMs + PULSE_DEBOUNCE_MS
    /\ pulsePin = LOW
    /\ lastDialState = LOW /\ lastDialDebounce = SetupDelayMs
    /\ shuntPin = HIGH /\ dialing /\ pulseCount = 1

----------------------------------------------------------------------------
(* C16 *)

\* C16: while dialing, a pulse Low sample (accepted or not) and a Shunt Low
\* sample print nothing, leave pulseCount as it is, leave the machine
\* dialing and do not move dialingTimeout, the time the 3000 ms timeout
\* counts from; and dialingTimeout moves only when the machine starts
\* dialing or a pulse High edge is counted.
C16_LowIgnoredWhileDialing ==
    [][/\ (/\ dialing
           /\ \/ pulsePin' # pulsePin /\ pulsePin' = LOW
              \/ shuntPin' # shuntPin /\ shuntPin' = LOW)
            => UNCHANGED <<out, pulseCount, dialing, dialingTimeout>>
       /\ dialingTimeout' # dialingTimeout
            => \/ ~dialing /\ dialing'
               \/ dialing /\ pulseCount' = pulseCount + 1]_vars

\* Dialing, after an accepted pulse Low edge and, the shunt having bounced
\* High, a second Shunt Low sample: only Started is printed and the timeout
\* still counts from the start of the cycle.
C16_Witness ==
    /\ dialing /\ out = <<Ev("Started", "isr")>> /\ pulseCount = 0
    /\ pulsePin = LOW /\ lastPulseState = LOW
    /\ lastPulseDebounce > lastDialDebounce
    /\ shuntPin = LOW /\ edges = 4
    /\ dialingTimeout = lastDialDebounce

----------------------------------------------------------------------------
(* C17 *)

\* The step is the interrupt of a shunt edge that onShuntChange accepts.
AcceptedShunt ==
    shuntPin' # shuntPin /\ ShuntAccepted(clock, shuntPin')

\* C17: in every reachable state, dialing implies lastDialState = LOW; and
\* a shunt edge accepted while dialing is a High edge and ends the cycle.
C17_DialingImpliesShuntLow ==
    /\ [](dialing => lastDialState = LOW)
    /\ [][(dialing /\ AcceptedShunt)
             => (shuntPin' = HIGH /\ ~dialing' /\ lastDialState' = HIGH)]_vars

\* Dialing again after a safety timeout: the timeout left the machine idle
\* with lastDialState LOW, the shunt then went High and Low.
C17_Witness ==
    /\ dialing /\ lastDialState = LOW
    /\ PlainOut = <<<<"Started">>, <<"SafetyTimeout">>, <<"Started">>>>

----------------------------------------------------------------------------
(* C18 *)

\* C18 (as claimed): every Digit line printed, by onShuntChange or by the
\* timeout path of loop(), carries a pulse count n >= 1 and the digit
\* n = 10 ? 0 : n of that same count.
C18_DigitConsistent ==
    \A i \in Positions({"Digit"}) :
        out[i].pulses >= 1 /\ out[i].value = DigitOf(out[i].pulses)

----------------------------------------------------------------------------
(* C19 *)

\* ms since the start of the run, for a clock value x of the run: a true
\* time, which does not wrap
TrueMs(x) == Sub32(x, WrapStart)

\* The line's last accepted edge, at clock value last, is less than 2^32 ms
\* ago: it was accepted in this run (no edge is accepted at clock value 0
\* here), or none was yet and the clock has not passed 2^32.
Within32(last) == last # 0 \/ clock < 0

\* At least w ms of true time have passed since the line's last accepted
\* edge (since boot, more than w ms ago, when there was none).
TrulyDue(last, w) == last = 0 \/ TrueMs(clock) - TrueMs(last) >= w

\* C19: the debounce decisions are wrap-safe.  With millis() wrapping from
\* 2^32 - 1 to 0 during the run, every sample of the pulse line and of the
\* shunt line taken less than 2^32 ms after the line's last accepted edge is
\* accepted exactly when its level differs from the stable level and the
\* true time since that edge is at least the window, as it is when the
\* clock does not wrap between the two.
C19_WrapSafeDebounce ==
    [][/\ (pulsePin' # pulsePin /\ Within32(lastPulseDebounce))
            => IF /\ pulsePin' # lastPulseState
                  /\ TrulyDue(lastPulseDebounce, PULSE_DEBOUNCE_MS)
               THEN lastPulseState' = pulsePin' /\ lastPulseDebounce' = clock
               ELSE UNCHANGED <<lastPulseState, lastPulseDebounce>>
       /\ (shuntPin' # shuntPin /\ Within32(lastDialDebounce))
            => IF /\ shuntPin' # lastDialState
                  /\ TrulyDue(lastDialDebounce, DIAL_DEBOUNCE_MS)
               THEN lastDialState' = shuntPin' /\ lastDialDebounce' = clock
               ELSE UNCHANGED <<lastDialState, lastDialDebounce>>]_vars

\* After the wrap: the cycle started before the wrap was ended by a Shunt
\* High edge accepted after it, and a pulse High sample was rejected, the
\* pulse Low edge before it having been accepted before the wrap.
C19_Witness ==
    /\ clock > 0 /\ dialingTimeout < 0 /\ lastDialDebounce > 0
    /\ PlainOut = <<<<"Started">>, <<"Ended">>>>
    /\ lastPulseDebounce < 0 /\ lastPulseState = LOW /\ pulsePin = HIGH

====
